---- MODULE Spec2Model ----
(***************************************************************************)
(* Model of the watch marketplace backend (FastAPI route handlers over a   *)
(* relational ledger): app/auth.py, app/routers/watches.py,                *)
(* app/routers/admin.py and app/routers/stellar_contracts.py.              *)
(*                                                                         *)
(* Tables are sequences whose index is the row id (notifications, whose    *)
(* ids nothing reads, are a bag of rows).  Money is an integer number of    *)
(* centavos.  Handlers that only touch the database in one       *)
(* commit are single actions; purchase_watch, which calls two external     *)
(* adapters between its reads and its commit and runs in the worker        *)
(* thread pool, is split at those calls so that two requests interleave.   *)
(*                                                                         *)
(* POST /watches/{watch_id}/purchase is registered twice (watches.py:337   *)
(* and :537).  The router matches routes in registration order, so every   *)
(* request is served by the first handler; the second registration is      *)
(* never dispatched and has no action here.                                *)
(*                                                                         *)
(* The escrow routes of app/routers/stellar_contracts.py read and write    *)
(* only the escrow contract's state and the marketplace routes never touch *)
(* it, so the two groups of handlers are checked as two specifications     *)
(* over the same variables: Spec (marketplace) and EscrowSpec (escrow).    *)
(*                                                                         *)
(* create_watch_with_image suspends at "await image.read()" between its    *)
(* serial number check and its insert.  Spec takes the handler in one step *)
(* (the read completes without suspending); RegistrySpec takes the two     *)
(* registration handlers alone and splits the upload at the await.         *)
(***************************************************************************)
EXTENDS Integers, Sequences, FiniteSets, Bags, TLC

\* ------------------------------------------------------------------ bounds
MaxWatches == 2
MaxWorkers == 2
MaxRequests == 3

\* --------------------------------------------------------------- constants
NoId == 0
NoValue == 0
DefaultPrice == 5000000
AdminUserId == 1
RatePercent == 3

\* the registered accounts; account 6 has role evaluator and no Evaluator
\* record.  Users are the accounts that send requests in Spec.
Accounts == 1..6
Users == 1..5
UserRole == (1 :> "admin") @@ (2 :> "store") @@ (3 :> "evaluator") @@ (4 :> "user") @@
            (5 :> "user") @@ (6 :> "evaluator")
Evaluators == {[user_id |-> 3, store_id |-> 1]}
\* resell offers on file, each made by the user who sells
ResellOffers == <<[user_id |-> 4], [user_id |-> 5]>>

Serials == 1..MaxWatches
Values == {NoValue, 9500000}
ListPrices == {NoValue, 7000000}
Reqs == 1..MaxWorkers
UploadOwners == {2, 4}
NotifyResults == {"sent", "seller_failed", "buyer_failed"}
\* payment details of a request: method, all four card fields given, cpf given
Payloads == {[method |-> "pix", cardOk |-> FALSE, cpfOk |-> TRUE],
             [method |-> "pix", cardOk |-> FALSE, cpfOk |-> FALSE],
             [method |-> "credit_card", cardOk |-> TRUE, cpfOk |-> TRUE],
             [method |-> "credit_card", cardOk |-> FALSE, cpfOk |-> TRUE],
             [method |-> "credit_card", cardOk |-> TRUE, cpfOk |-> FALSE]}
AdapterResults == {"success", "failure", "exception"}

VARIABLES watches, stores, transfers, commissions, notifications, escrows, req, uploads, resp, served

vars == <<watches, stores, transfers, commissions, notifications, escrows, req, uploads, resp, served>>
ledger == <<watches, stores, transfers, commissions, notifications, escrows>>

\* ----------------------------------------------------------------- helpers
\* a response: the handler, the HTTP status code and the place that produced
\* it; the response to a purchase also names the request it answers
Resp(op, code, cause) ==
    [op |-> op, code |-> code, cause |-> cause, caller |-> NoId, wid |-> NoId]
PurchaseResp(code, cause, caller, watch_id) ==
    [op |-> "purchase_watch", code |-> code, cause |-> cause, caller |-> caller, wid |-> watch_id]
NoResp == Resp("none", 0, "none")
Pending(caller, watch_id) == PurchaseResp(0, "pending", caller, watch_id)

\* a request wrote when it changed a table or, for a purchase, got past its
\* checks and adapter calls to its commit: served counts these requests, and
\* the model follows the system up to MaxRequests of them
Wrote == ledger' # ledger \/ req' # req \/ uploads' # uploads

RequireRole_AnyRole(required_roles, caller) == caller \in Users

RequireRole(required_roles, caller) == UserRole[caller] \in required_roles

CreateNotification(ns, user_id, title) == ns (+) SetToBag({[user_id |-> user_id, title |-> title]})

SerialExists(serial) == \E i \in DOMAIN watches : watches[i].serial_number = serial

StoreOfUser(user_id) ==
    IF \E s \in DOMAIN stores : stores[s].user_id = user_id
    THEN CHOOSE s \in DOMAIN stores : stores[s].user_id = user_id
    ELSE NoId

IdleReq == [pc |-> "idle", caller |-> NoId, wid |-> NoId, owner |-> NoId, price |-> NoValue,
            pay |-> "none", xfer |-> "none", tx |-> "none"]

IdleUpload == [pc |-> "idle", caller |-> NoId, serial |-> NoId, owner |-> NoId]

Init ==
    /\ watches = <<>>
    /\ stores = <<[user_id |-> 2, credentialed |-> TRUE]>>
    /\ transfers = <<>>
    /\ commissions = <<>>
    /\ notifications = EmptyBag
    /\ escrows = <<>>
    /\ req = [t \in Reqs |-> IdleReq]
    /\ uploads = [u \in Reqs |-> IdleUpload]
    /\ resp = NoResp
    /\ served = 0

\* ------------------------------------------------------------ create_watch
InitialStatus(user_role) ==
    IF user_role = "admin" THEN "registered"
    ELSE IF user_role = "evaluator" THEN "for_sale"
    ELSE "registered"

\* store the evaluator is linked to, NoId when the caller has no such record
EvaluatorStoreId(caller) ==
    IF UserRole[caller] = "evaluator" /\ \E e \in Evaluators : e.user_id = caller /\ e.store_id # NoId
    THEN (CHOOSE e \in Evaluators : e.user_id = caller /\ e.store_id # NoId).store_id
    ELSE NoId

OwnerUserId_Caller(caller) == caller

OwnerUserId(caller) ==
    IF EvaluatorStoreId(caller) # NoId /\ EvaluatorStoreId(caller) \in DOMAIN stores
    THEN stores[EvaluatorStoreId(caller)].user_id
    ELSE caller

CreateWatch(caller, serial, value) ==
    /\ resp = NoResp
    /\ served < MaxRequests
    /\ IF ~RequireRole({"admin", "evaluator"}, caller)
       THEN /\ resp' = Resp("create_watch", 403, "forbidden")
            /\ UNCHANGED <<watches, notifications>>
       ELSE IF SerialExists(serial)
       THEN /\ resp' = Resp("create_watch", 400, "duplicate_serial")
            /\ UNCHANGED <<watches, notifications>>
       ELSE /\ watches' = Append(watches,
                    [serial_number |-> serial,
                     status |-> InitialStatus(UserRole[caller]),
                     current_owner_user_id |-> OwnerUserId(caller),
                     current_value_brl |-> value,
                     store_id |-> EvaluatorStoreId(caller),
                     nft |-> FALSE,
                     price_brl |-> NoValue])
            /\ notifications' = CreateNotification(notifications, caller, "Relogio Registrado")
            /\ resp' = Resp("create_watch", 200, "ok")
    /\ UNCHANGED <<stores, transfers, commissions, escrows, req, uploads>>
    /\ served' = served + (IF Wrote THEN 1 ELSE 0)

\* ------------------------------------------------- create_watch_with_image
CreateWatchWithImage(caller, serial, owner_id, nft_result) ==
    /\ resp = NoResp
    /\ served < MaxRequests
    /\ IF ~RequireRole({"admin", "user"}, caller)
       THEN /\ resp' = Resp("create_watch_with_image", 403, "forbidden")
            /\ UNCHANGED <<watches, notifications>>
       ELSE IF UserRole[caller] # "admin" /\ caller # owner_id
       THEN /\ resp' = Resp("create_watch_with_image", 403, "forbidden")
            /\ UNCHANGED <<watches, notifications>>
       ELSE IF SerialExists(serial)
       THEN /\ resp' = Resp("create_watch_with_image", 400, "duplicate_serial")
            /\ UNCHANGED <<watches, notifications>>
       ELSE /\ watches' = Append(watches,
                    [serial_number |-> serial,
                     status |-> "registered",
                     current_owner_user_id |-> owner_id,
                     current_value_brl |-> NoValue,
                     store_id |-> NoId,
                     nft |-> (nft_result = "success"),
                     price_brl |-> NoValue])
            /\ IF nft_result = "exception"
               THEN /\ UNCHANGED notifications
                    /\ resp' = Resp("create_watch_with_image", 500, "exception")
               ELSE IF nft_result = "success"
               THEN /\ notifications' = CreateNotification(notifications, owner_id, "Relogio Cadastrado")
                    /\ resp' = Resp("create_watch_with_image", 200, "ok")
               ELSE /\ UNCHANGED notifications
                    /\ resp' = Resp("create_watch_with_image", 200, "ok")
    /\ UNCHANGED <<stores, transfers, commissions, escrows, req, uploads>>
    /\ served' = served + (IF Wrote THEN 1 ELSE 0)

\* the upload handler split at "await image.read()" (line 203): the checks
\* of lines 186-193 before it, the insert and the token issue after it
UploadBegin(u, caller, serial, owner_id) ==
    /\ resp = NoResp
    /\ served < MaxRequests
    /\ uploads[u].pc = "idle"
    /\ \A x \in Reqs : x < u => uploads[x].pc # "idle"
    /\ IF ~RequireRole({"admin", "user"}, caller)
       THEN /\ resp' = Resp("create_watch_with_image", 403, "forbidden")
            /\ UNCHANGED uploads
       ELSE IF UserRole[caller] # "admin" /\ caller # owner_id
       THEN /\ resp' = Resp("create_watch_with_image", 403, "forbidden")
            /\ UNCHANGED uploads
       ELSE IF SerialExists(serial)
       THEN /\ resp' = Resp("create_watch_with_image", 400, "duplicate_serial")
            /\ UNCHANGED uploads
       ELSE /\ uploads' = [uploads EXCEPT ![u] =
                    [pc |-> "read", caller |-> caller, serial |-> serial, owner |-> owner_id]]
            /\ resp' = NoResp
    /\ UNCHANGED <<watches, stores, transfers, commissions, notifications, escrows, req>>
    /\ served' = served + (IF Wrote THEN 1 ELSE 0)

UniqueSerial_NoConstraint(ws, serial) == TRUE

\* the uniqueness constraint of Watch.serial_number: the commit of a row
\* whose serial number is already in the table raises
UniqueSerial(ws, serial) == \A i \in DOMAIN ws : ws[i].serial_number # serial

UploadCommit(u, nft_result) ==
    /\ resp = NoResp
    /\ UNCHANGED served
    /\ uploads[u].pc = "read"
    /\ IF ~UniqueSerial(watches, uploads[u].serial)
       THEN /\ resp' = Resp("create_watch_with_image", 500, "integrity")
            /\ UNCHANGED <<watches, notifications>>
       ELSE /\ watches' = Append(watches,
                    [serial_number |-> uploads[u].serial,
                     status |-> "registered",
                     current_owner_user_id |-> uploads[u].owner,
                     current_value_brl |-> NoValue,
                     store_id |-> NoId,
                     nft |-> (nft_result = "success"),
                     price_brl |-> NoValue])
            /\ IF nft_result = "exception"
               THEN /\ UNCHANGED notifications
                    /\ resp' = Resp("create_watch_with_image", 500, "exception")
               ELSE IF nft_result = "success"
               THEN /\ notifications' = CreateNotification(notifications, uploads[u].owner,
                                                           "Relogio Cadastrado")
                    /\ resp' = Resp("create_watch_with_image", 200, "ok")
               ELSE /\ UNCHANGED notifications
                    /\ resp' = Resp("create_watch_with_image", 200, "ok")
    /\ uploads' = [uploads EXCEPT ![u] = IdleUpload]
    /\ UNCHANGED <<stores, transfers, commissions, escrows, req>>

\* ---------------------------------------------------------- tokenize_watch
EvaluatorLookup_Imported(caller) ==
    IF \E e \in Evaluators : e.user_id = caller THEN "found" ELSE "missing"

\* db.query(Evaluator) at watches.py:108: the module imports Watch, User,
\* OwnershipTransfer, Notification, Commission and Store (line 10) but not
\* Evaluator, which only create_watch imports, locally (line 43); evaluating
\* the name raises NameError, outside the handler's try block
EvaluatorLookup(caller) == "name_error"

TokenizePrecheck_RoleAndWatchOnly(caller, watch_id) ==
    IF ~RequireRole({"evaluator"}, caller) THEN Resp("tokenize_watch", 403, "forbidden")
    ELSE IF watch_id \notin DOMAIN watches THEN Resp("tokenize_watch", 404, "not_found")
    ELSE Resp("tokenize_watch", 0, "pending")

\* the checks made before create_nft_asset is called; code 0 = all passed
TokenizePrecheck(caller, watch_id) ==
    IF ~RequireRole({"evaluator"}, caller) THEN Resp("tokenize_watch", 403, "forbidden")
    ELSE IF watch_id \notin DOMAIN watches THEN Resp("tokenize_watch", 404, "not_found")
    ELSE IF EvaluatorLookup(caller) = "name_error"
    THEN Resp("tokenize_watch", 500, "name_error")
    ELSE IF EvaluatorLookup(caller) = "missing"
    THEN Resp("tokenize_watch", 403, "not_evaluator")
    ELSE IF watches[watch_id].status = "tokenized"
    THEN Resp("tokenize_watch", 400, "already_tokenized")
    ELSE IF watches[watch_id].status \notin {"evaluated", "registered"}
    THEN Resp("tokenize_watch", 400, "not_evaluated")
    ELSE Resp("tokenize_watch", 0, "pending")

\* nft_result is the answer of create_nft_asset, "none" when the request is
\* answered before the call.  Everything from the call to the return is
\* inside one try block whose handler (lines 169-173) writes nft_failed and
\* commits: it catches the HTTPException raised after nft_error was written
\* (line 167), the TypeError of the fee computed from a current value of
\* None (line 147, before the first commit, with the token fields already
\* set on the row) and a raise of create_notification (after that commit).
TokenizeWatch(caller, watch_id, nft_result) ==
    /\ resp = NoResp
    /\ served < MaxRequests
    /\ LET res == TokenizePrecheck(caller, watch_id)
       IN  /\ (res.code # 0) <=> (nft_result = "none")
           /\ IF res.code # 0
              THEN /\ resp' = res
                   /\ UNCHANGED <<watches, notifications>>
              ELSE IF nft_result = "success"
              THEN \E fee_ok \in {watches[watch_id].current_value_brl # NoValue, TRUE},
                      notified \in BOOLEAN :
                      IF fee_ok /\ notified
                      THEN /\ watches' = [watches EXCEPT ![watch_id].nft = TRUE,
                                                         ![watch_id].status = "tokenized"]
                           /\ notifications' = CreateNotification(notifications, caller,
                                                                  "Relogio Tokenizado")
                           /\ resp' = Resp("tokenize_watch", 200, "ok")
                      ELSE /\ watches' = [watches EXCEPT ![watch_id].nft = TRUE,
                                                         ![watch_id].status = "nft_failed"]
                           /\ UNCHANGED notifications
                           /\ resp' = Resp("tokenize_watch", 500, "tokenization")
              ELSE /\ watches' = [watches EXCEPT ![watch_id].status = "nft_failed"]
                   /\ UNCHANGED notifications
                   /\ resp' = Resp("tokenize_watch", 500, "tokenization")
    /\ UNCHANGED <<stores, transfers, commissions, escrows, req, uploads>>
    /\ served' = served + (IF Wrote THEN 1 ELSE 0)

\* ----------------------------------------------------------- list_for_sale
ListForSale(caller, watch_id) ==
    /\ resp = NoResp
    /\ served < MaxRequests
    /\ IF ~RequireRole({"store"}, caller)
       THEN /\ resp' = Resp("list_for_sale", 403, "forbidden")
            /\ UNCHANGED watches
       ELSE IF UserRole[caller] # "store"
       THEN /\ resp' = Resp("list_for_sale", 403, "forbidden")
            /\ UNCHANGED watches
       ELSE IF ~(watch_id \in DOMAIN watches /\ watches[watch_id].current_owner_user_id = caller)
       THEN /\ resp' = Resp("list_for_sale", 404, "not_found")
            /\ UNCHANGED watches
       ELSE /\ watches' = [watches EXCEPT ![watch_id].status = "for_sale"]
            /\ resp' = Resp("list_for_sale", 200, "ok")
    /\ UNCHANGED <<stores, transfers, commissions, notifications, escrows, req, uploads>>
    /\ served' = served + (IF Wrote THEN 1 ELSE 0)

\* ------------------------------------------------------ put_watch_for_sale
\* sale_price = NoValue stands for a sale_data without the key price_brl
PutWatchForSale(caller, watch_id, sale_price) ==
    /\ resp = NoResp
    /\ served < MaxRequests
    /\ IF ~RequireRole({"store", "admin"}, caller)
       THEN /\ resp' = Resp("put_watch_for_sale", 403, "forbidden")
            /\ UNCHANGED watches
       ELSE IF UserRole[caller] = "store" /\ StoreOfUser(caller) = NoId
       THEN /\ resp' = Resp("put_watch_for_sale", 404, "not_found")
            /\ UNCHANGED watches
       ELSE IF ~(/\ watch_id \in DOMAIN watches
                 /\ UserRole[caller] = "store" => watches[watch_id].store_id = StoreOfUser(caller))
       THEN /\ resp' = Resp("put_watch_for_sale", 404, "not_found")
            /\ UNCHANGED watches
       ELSE /\ watches' = [watches EXCEPT
                    ![watch_id].status = "for_sale",
                    ![watch_id].price_brl = IF sale_price # NoValue THEN sale_price
                                            ELSE watches[watch_id].current_value_brl]
            /\ resp' = Resp("put_watch_for_sale", 200, "ok")
    /\ UNCHANGED <<stores, transfers, commissions, notifications, escrows, req, uploads>>
    /\ served' = served + (IF Wrote THEN 1 ELSE 0)

\* ------------------------------------------------- toggle_store_credential
ToggleStoreCredential(caller, store_id) ==
    /\ resp = NoResp
    /\ served < MaxRequests
    /\ IF ~RequireRole({"admin"}, caller)
       THEN /\ resp' = Resp("toggle_store_credential", 403, "forbidden")
            /\ UNCHANGED stores
       ELSE IF store_id \notin DOMAIN stores
       THEN /\ resp' = Resp("toggle_store_credential", 404, "not_found")
            /\ UNCHANGED stores
       ELSE /\ stores' = [stores EXCEPT ![store_id].credentialed = ~stores[store_id].credentialed]
            /\ resp' = Resp("toggle_store_credential", 200, "ok")
    /\ UNCHANGED <<watches, transfers, commissions, notifications, escrows, req, uploads>>
    /\ served' = served + (IF Wrote THEN 1 ELSE 0)

\* ---------------------------------------------------------- purchase_watch
WatchForSale_AnyStatus(watch_id) == watch_id \in DOMAIN watches

WatchForSale(watch_id) ==
    watch_id \in DOMAIN watches /\ watches[watch_id].status = "for_sale"

OwnerIsStore(watch_id) ==
    /\ watches[watch_id].current_owner_user_id \in Users
    /\ UserRole[watches[watch_id].current_owner_user_id] = "store"

ResolvePrice_ListingPrice(watch_id) ==
    IF watches[watch_id].price_brl # NoValue
    THEN watches[watch_id].price_brl
    ELSE watches[watch_id].current_value_brl

ResolvePrice(watch_id) ==
    IF watches[watch_id].current_value_brl # NoValue
    THEN watches[watch_id].current_value_brl
    ELSE DefaultPrice

PaymentDetailsOk(purchase) ==
    IF purchase.method = "credit_card" THEN purchase.cardOk /\ purchase.cpfOk
    ELSE IF purchase.method = "pix" THEN purchase.cpfOk
    ELSE TRUE

\* the checks made before the Payment Adapter is called; Pending = all passed.
\* The HTTPException(400) of the payment validation is raised inside the try
\* block whose handler turns every Exception into a 500.
PurchasePrecheck(caller, watch_id, purchase) ==
    IF ~RequireRole({"user"}, caller) THEN PurchaseResp(403, "forbidden", caller, watch_id)
    ELSE IF ~WatchForSale(watch_id) THEN PurchaseResp(404, "not_for_sale", caller, watch_id)
    ELSE IF ~OwnerIsStore(watch_id) THEN PurchaseResp(400, "owner_not_store", caller, watch_id)
    ELSE IF watches[watch_id].current_owner_user_id = caller
    THEN PurchaseResp(400, "own_watch", caller, watch_id)
    ELSE IF ~PaymentDetailsOk(purchase)
    THEN PurchaseResp(500, "payment_details", caller, watch_id)
    ELSE Pending(caller, watch_id)

PaymentSucceeded_AnyAnswer(payment_result) == payment_result # "exception"

PaymentSucceeded_Unchecked(payment_result) == TRUE

PaymentSucceeded(payment_result) == payment_result = "success"

\* what the two adapters answer when called: "success"/"failure" = the status
\* returned, "exception" = the call raised; "none" = the request is answered
\* before the Payment Adapter is reached
AdapterCalls == {<<"none", "none">>} \cup (AdapterResults \X AdapterResults)

\* lines 345-401: the reads and checks, then simulate_payment_conversion and,
\* once it reports success, transfer_nft (a raise of transfer_nft is replaced
\* by a synthetic successful result).  The adapters touch no table, so their
\* calls are taken in the same step as the reads; the request then holds what
\* it read until its commit.
PurchaseBegin(t, caller, watch_id, purchase, payment_result, transfer_result) ==
    /\ resp = NoResp
    /\ served < MaxRequests
    /\ req[t].pc = "idle"
    /\ \A u \in Reqs : u < t => req[u].pc # "idle"
    /\ LET res == PurchasePrecheck(caller, watch_id, purchase)
       IN  /\ (res.code # 0) <=> (payment_result = "none")
           /\ IF res.code # 0
              THEN /\ resp' = res
                   /\ UNCHANGED req
              ELSE IF payment_result = "exception"
              THEN /\ resp' = PurchaseResp(500, "payment_raised", caller, watch_id)
                   /\ UNCHANGED req
              ELSE IF ~PaymentSucceeded(payment_result)
              THEN /\ resp' = PurchaseResp(400, "payment_declined", caller, watch_id)
                   /\ UNCHANGED req
              ELSE IF transfer_result = "failure"
              THEN /\ resp' = PurchaseResp(400, "transfer_declined", caller, watch_id)
                   /\ UNCHANGED req
              ELSE /\ req' = [req EXCEPT ![t] =
                        [pc |-> "commit", caller |-> caller, wid |-> watch_id,
                         owner |-> watches[watch_id].current_owner_user_id,
                         price |-> ResolvePrice(watch_id),
                         pay |-> payment_result, xfer |-> transfer_result,
                         tx |-> IF transfer_result = "exception"
                                THEN "simulated_transfer" ELSE "tx_hash"]]
                   /\ resp' = NoResp
    /\ UNCHANGED <<watches, stores, transfers, commissions, notifications, escrows, uploads>>
    /\ served' = served + (IF Wrote THEN 1 ELSE 0)

AdminFee_NoPercent(price_brl) == price_brl * RatePercent

AdminFee(price_brl) == (price_brl * RatePercent) \div 100

CommissionAmount_OfNetPrice(price_brl) ==
    ((price_brl - AdminFee(price_brl)) * RatePercent) \div 100

CommissionAmount(price_brl) == (price_brl * RatePercent) \div 100

TransferFrom_AfterReassign(r) == r.caller

\* watch.current_owner_user_id as the request's session loaded it
TransferFrom(r) == r.owner

\* transfer.id is read right after db.add(transfer), before any flush: the
\* primary key is not assigned yet and the attribute is None
PendingTransferId(new_id) == NoId

AddTransfer_MergeByWatch(ts, row) ==
    IF \E i \in DOMAIN ts : ts[i].watch_id = row.watch_id
    THEN [ts EXCEPT ![CHOOSE i \in DOMAIN ts : ts[i].watch_id = row.watch_id] = row]
    ELSE Append(ts, row)

\* db.add(transfer): a new row, the rows already there are not touched
AddTransfer(ts, row) == Append(ts, row)

NewOwnershipTransfer(r) ==
    [id |-> Len(transfers) + 1,
     watch_id |-> r.wid,
     from_user_id |-> TransferFrom(r),
     to_user_id |-> r.caller,
     stellar_tx_hash |-> r.tx,
     type |-> "sale",
     price_brl |-> r.price,
     admin_fee_brl |-> AdminFee(r.price)]

NewCommission(r) ==
    [transaction_id |-> PendingTransferId(Len(transfers) + 1),
     transaction_type |-> "sale",
     recipient_user_id |-> AdminUserId,
     amount_brl |-> CommissionAmount(r.price)]

\* lines 403-428: the single db.commit() of the handler
PurchaseCommit(t) ==
    /\ resp = NoResp
    /\ UNCHANGED served
    /\ req[t].pc = "commit"
    /\ transfers' = AddTransfer(transfers, NewOwnershipTransfer(req[t]))
    /\ watches' = [watches EXCEPT ![req[t].wid].current_owner_user_id = req[t].caller,
                                  ![req[t].wid].status = "sold"]
    /\ commissions' = Append(commissions, NewCommission(req[t]))
    /\ req' = [req EXCEPT ![t].pc = "notify"]
    /\ resp' = NoResp
    /\ UNCHANGED <<stores, notifications, escrows, uploads>>

SaleNotifications_SellerOnly(ns, r) ==
    CreateNotification(ns, r.owner, "Relogio Vendido")

\* lines 431-445: one notification to the seller, then one to the buyer
SaleNotifications(ns, r) ==
    CreateNotification(CreateNotification(ns, r.owner, "Relogio Vendido"),
                       r.caller, "Compra Realizada")

\* lines 430-469: the two notifications, each its own commit that nothing
\* else reads, then the response
PurchaseNotify(t, notify_result) ==
    /\ resp = NoResp
    /\ UNCHANGED served
    /\ req[t].pc = "notify"
    /\ IF notify_result = "seller_failed"
       THEN /\ UNCHANGED notifications
            /\ resp' = PurchaseResp(500, "notification", req[t].caller, req[t].wid)
       ELSE IF notify_result = "buyer_failed"
       THEN /\ notifications' = CreateNotification(notifications, req[t].owner, "Relogio Vendido")
            /\ resp' = PurchaseResp(500, "notification", req[t].caller, req[t].wid)
       ELSE /\ notifications' = SaleNotifications(notifications, req[t])
            /\ resp' = PurchaseResp(200, "ok", req[t].caller, req[t].wid)
    /\ req' = [req EXCEPT ![t] = IdleReq]
    /\ UNCHANGED <<watches, stores, transfers, commissions, escrows, uploads>>

\* the response of the finished handler goes out to the client; handlers do
\* not read it, so waiting for it here restricts no order of their steps
Respond ==
    /\ resp # NoResp
    /\ resp' = NoResp
    /\ UNCHANGED <<watches, stores, transfers, commissions, notifications, escrows, req, uploads, served>>

\* ----------------------------------------------------- escrow (stellar)
EscrowResp(op, code, cause, caller, escrow_id) ==
    [op |-> op, code |-> code, cause |-> cause, caller |-> caller, wid |-> escrow_id]

\* every account is made by register, which gives it a key pair
HasStellarKey(user_id) == user_id \in Users

\* the escrow contract's deposit: a new escrow, pending, nothing confirmed
DepositToEscrow(es, offer_id) ==
    Append(es, [offer_id |-> offer_id,
                seller_id |-> ResellOffers[offer_id].user_id,
                status |-> "pending",
                seller_confirmed |-> FALSE,
                evaluator_confirmed |-> FALSE])

\* every HTTPException of the handler is raised inside its try block, whose
\* handler answers any Exception with a 500
CreateEscrow(caller, offer_id, deposit_result) ==
    /\ resp = NoResp
    /\ served < MaxRequests
    /\ IF UserRole[caller] # "store"
       THEN /\ resp' = EscrowResp("create_escrow", 500, "forbidden", caller, NoId)
            /\ UNCHANGED escrows
       ELSE IF offer_id \notin DOMAIN ResellOffers
       THEN /\ resp' = EscrowResp("create_escrow", 500, "not_found", caller, NoId)
            /\ UNCHANGED escrows
       ELSE IF ~HasStellarKey(caller)
       THEN /\ resp' = EscrowResp("create_escrow", 500, "no_key", caller, NoId)
            /\ UNCHANGED escrows
       ELSE IF deposit_result = "exception"
       THEN /\ resp' = EscrowResp("create_escrow", 500, "contract_raised", caller, NoId)
            /\ UNCHANGED escrows
       ELSE /\ escrows' = DepositToEscrow(escrows, offer_id)
            /\ resp' = EscrowResp("create_escrow", 200, "ok", caller, Len(escrows) + 1)
    /\ UNCHANGED <<watches, stores, transfers, commissions, notifications, req, uploads>>
    /\ served' = served + (IF Wrote THEN 1 ELSE 0)

\* lines 205-214: the confirmer type follows from the caller's role alone
ConfirmerType(user_role) ==
    IF user_role = "user" THEN "seller"
    ELSE IF user_role = "evaluator" THEN "evaluator"
    ELSE "forbidden"

EscrowConfirm_ReleaseOnFirst(e, confirmer_type) ==
    IF e.status # "pending" THEN e
    ELSE [e EXCEPT !.seller_confirmed = @ \/ confirmer_type = "seller",
                   !.evaluator_confirmed = @ \/ confirmer_type = "evaluator",
                   !.status = "released"]

\* the escrow contract's confirm_delivery: the confirmer's flag is set and
\* a pending escrow with both flags set is released
EscrowConfirm(e, confirmer_type) ==
    IF e.status # "pending" THEN e
    ELSE LET f == [e EXCEPT !.seller_confirmed = @ \/ confirmer_type = "seller",
                            !.evaluator_confirmed = @ \/ confirmer_type = "evaluator"]
         IN  [f EXCEPT !.status = IF f.seller_confirmed /\ f.evaluator_confirmed
                                  THEN "released" ELSE "pending"]

\* the 403 for the other roles is raised inside the try block and answered
\* as a 500, like a raise of the contract for an escrow it does not hold
ConfirmDelivery(caller, escrow_id) ==
    /\ resp = NoResp
    /\ served < MaxRequests
    /\ IF ConfirmerType(UserRole[caller]) = "forbidden"
       THEN /\ resp' = EscrowResp("confirm_delivery", 500, "forbidden", caller, escrow_id)
            /\ UNCHANGED escrows
       ELSE IF escrow_id \notin DOMAIN escrows
       THEN /\ resp' = EscrowResp("confirm_delivery", 500, "contract_raised", caller, escrow_id)
            /\ UNCHANGED escrows
       ELSE /\ escrows' = [escrows EXCEPT ![escrow_id] =
                                EscrowConfirm(@, ConfirmerType(UserRole[caller]))]
            /\ resp' = EscrowResp("confirm_delivery", 200, "ok", caller, escrow_id)
    /\ UNCHANGED <<watches, stores, transfers, commissions, notifications, req, uploads>>
    /\ served' = served + (IF Wrote THEN 1 ELSE 0)

\* ------------------------------------------------------------ specification
\* serial numbers a request may carry: one already registered, or the next
\* unused one (serial numbers are only compared for equality)
SerialInputs == {s \in Serials : s <= Len(watches) + 1}

Next ==
    \/ \E c \in Users, s \in SerialInputs, v \in Values : CreateWatch(c, s, v)
    \/ \E c \in Users, s \in SerialInputs, o \in UploadOwners, n \in AdapterResults :
            CreateWatchWithImage(c, s, o, n)
    \/ \E c \in Users, w \in 1..MaxWatches, n \in {"none"} \cup AdapterResults :
            TokenizeWatch(c, w, n)
    \/ \E c \in Users, w \in 1..MaxWatches : ListForSale(c, w)
    \/ \E c \in Users, w \in 1..MaxWatches, p \in ListPrices : PutWatchForSale(c, w, p)
    \/ \E c \in Users, s \in 1..2 : ToggleStoreCredential(c, s)
    \/ \E t \in Reqs, c \in Users, w \in 1..MaxWatches, p \in Payloads, a \in AdapterCalls :
            PurchaseBegin(t, c, w, p, a[1], a[2])
    \/ \E t \in Reqs : PurchaseCommit(t)
    \/ \E t \in Reqs, n \in NotifyResults : PurchaseNotify(t, n)
    \/ Respond

Spec == Init /\ [][Next]_vars

EscrowNext ==
    \/ \E c \in Users, o \in 1..(Len(ResellOffers) + 1), d \in {"success", "exception"} :
            CreateEscrow(c, o, d)
    \/ \E c \in Users, e \in 1..(Len(escrows) + 1) : ConfirmDelivery(c, e)
    \/ Respond

EscrowSpec == Init /\ [][EscrowNext]_vars

RegistryNext ==
    \/ \E c \in Accounts, s \in SerialInputs, v \in Values : CreateWatch(c, s, v)
    \/ \E u \in Reqs, c \in Accounts, s \in SerialInputs, o \in UploadOwners :
            UploadBegin(u, c, s, o)
    \/ \E u \in Reqs, n \in AdapterResults : UploadCommit(u, n)
    \/ Respond

RegistrySpec == Init /\ [][RegistryNext]_vars

TypeOK ==
    /\ Len(watches) <= Cardinality(Serials)
    /\ \A t \in Reqs : req[t].pc \in {"idle", "commit", "notify"}

\* ------------------------------------------------------------------ claims
\* rows of type "sale" that reference watch w
SaleTransfersOf(w) ==
    {i \in DOMAIN transfers : transfers[i].watch_id = w /\ transfers[i].type = "sale"}

\* this step is purchase_watch taking the request of caller c for watch w up
\* to its answer or, when every check and adapter call passed, up to its commit
PurchaseRequestStep(c, w) ==
    /\ resp = NoResp
    /\ \/ /\ req' = req
          /\ resp'.op = "purchase_watch" /\ resp'.caller = c /\ resp'.wid = w
       \/ \E t \in Reqs : /\ req[t].pc = "idle" /\ req'[t].pc = "commit"
                          /\ req'[t].caller = c /\ req'[t].wid = w

\* the request was answered with an error and wrote nothing
RejectedUnchanged ==
    /\ resp'.op = "purchase_watch" /\ resp'.code >= 400
    /\ req' = req
    /\ ledger' = ledger

IncompleteDetails(p) ==
    \/ p.method = "credit_card" /\ ~(p.cardOk /\ p.cpfOk)
    \/ p.method = "pix" /\ ~p.cpfOk

CredentialedSeller(u) ==
    /\ u \in Users /\ UserRole[u] = "store"
    /\ \E s \in DOMAIN stores : stores[s].user_id = u /\ stores[s].credentialed

\* C1: every watch whose status is "sold" is referenced by exactly one
\* OwnershipTransfer row of type "sale"
C1_SoldHasExactlyOneSale ==
    \A w \in DOMAIN watches :
        watches[w].status = "sold" => Cardinality(SaleTransfersOf(w)) = 1

\* C2: of the purchases of different buyers running against one watch at
\* most one gets through: no two of them both leave a sale transfer for the
\* watch, nor both a commission (the i-th commission is the one created with
\* the i-th transfer)
C2_OnePurchaseWins ==
    \A i, j \in DOMAIN transfers :
        (/\ i # j
         /\ transfers[i].type = "sale" /\ transfers[j].type = "sale"
         /\ transfers[i].to_user_id # transfers[j].to_user_id)
        => /\ transfers[i].watch_id # transfers[j].watch_id
           /\ ~(i \in DOMAIN commissions /\ j \in DOMAIN commissions
                 /\ transfers[i].watch_id = transfers[j].watch_id)

\* C3: when the Payment Adapter answers anything but success (a failure
\* status or a raised error) the purchase ends with an error response and
\* nothing is written: the watch stays for_sale with its owner, and no
\* transfer, commission or notification row is added
C3_PaymentFailureAborts ==
    [][\A c \in Users, w \in 1..MaxWatches :
         PurchaseRequestStep(c, w) =>
           \A t \in Reqs, p \in Payloads, a \in AdapterCalls :
             (a[1] \in {"failure", "exception"} /\ PurchaseBegin(t, c, w, p, a[1], a[2]))
               => /\ RejectedUnchanged
                  /\ resp'.cause \in {"payment_declined", "payment_raised"}
                  /\ watches'[w].status = "for_sale"
                  /\ watches'[w].current_owner_user_id = watches[w].current_owner_user_id
                  /\ Len(transfers') = Len(transfers)
                  /\ Len(commissions') = Len(commissions)
                  /\ notifications' = notifications]_vars

C3_Witness ==
    /\ resp.op = "purchase_watch" /\ resp.cause = "payment_declined"
    /\ watches[resp.wid].status = "for_sale"
    /\ transfers = <<>> /\ commissions = <<>>

\* C4: the commit of a purchase of a for_sale watch owned by a store user S
\* by a buyer B adds exactly one transfer {watch, from S, to B, sale, resolved
\* price, fee = 3% of the price}, sets the watch to owner B and status sold,
\* and adds exactly one commission whose amount is the fee; and no step
\* writes a part of this without the rest
C4_PurchaseCommitsAtomically ==
    [][/\ \A t \in Reqs :
            (/\ req[t].pc = "commit" /\ req'[t].pc = "notify"
             /\ watches[req[t].wid].status = "for_sale"
             /\ UserRole[watches[req[t].wid].current_owner_user_id] = "store")
            => LET w == req[t].wid
                   S == watches[w].current_owner_user_id
                   B == req[t].caller
                   price == IF watches[w].current_value_brl # 0
                            THEN watches[w].current_value_brl ELSE 5000000
                   tr == transfers'[Len(transfers')]
                   cm == commissions'[Len(commissions')]
               IN  /\ B # S
                   /\ Len(transfers') = Len(transfers) + 1
                   /\ SubSeq(transfers', 1, Len(transfers)) = transfers
                   /\ tr.watch_id = w /\ tr.from_user_id = S /\ tr.to_user_id = B
                   /\ tr.type = "sale" /\ tr.price_brl = price
                   /\ tr.admin_fee_brl * 100 = price * 3
                   /\ watches' = [watches EXCEPT ![w].current_owner_user_id = B,
                                                 ![w].status = "sold"]
                   /\ Len(commissions') = Len(commissions) + 1
                   /\ SubSeq(commissions', 1, Len(commissions)) = commissions
                   /\ cm.amount_brl = tr.admin_fee_brl
       /\ (\/ transfers' # transfers
           \/ commissions' # commissions
           \/ \E w \in DOMAIN watches : watches[w].status # "sold" /\ watches'[w].status = "sold")
          => /\ Len(transfers') = Len(transfers) + 1
             /\ Len(commissions') = Len(commissions) + 1
             /\ LET tr == transfers'[Len(transfers')]
                IN  /\ watches'[tr.watch_id].status = "sold"
                    /\ watches'[tr.watch_id].current_owner_user_id = tr.to_user_id]_vars

C4_Witness ==
    /\ Len(transfers) = 1 /\ Len(commissions) = 1
    /\ transfers[1].from_user_id = 2 /\ transfers[1].to_user_id = 4
    /\ transfers[1].price_brl = 9500000 /\ transfers[1].admin_fee_brl = 285000
    /\ watches[transfers[1].watch_id].status = "sold"
    /\ watches[transfers[1].watch_id].current_owner_user_id = 4
    /\ commissions[1].amount_brl = 285000

\* C5: the amount of every commission is 3% of the price of the transfer
\* created with it (the rows are paired by their order of creation) and
\* equals that transfer's admin fee, whatever the price
C5_CommissionIsRateOfPrice ==
    /\ Len(commissions) = Len(transfers)
    /\ \A i \in DOMAIN commissions :
           /\ commissions[i].amount_brl * 100 = transfers[i].price_brl * 3
           /\ commissions[i].amount_brl = transfers[i].admin_fee_brl

C5_Witness ==
    \E i \in DOMAIN commissions :
        /\ transfers[i].price_brl = DefaultPrice
        /\ commissions[i].amount_brl = 150000

\* C6: the transfer reference of every commission is set and is the id of
\* the transfer created by the same purchase
C6_CommissionReferencesTransfer ==
    \A i \in DOMAIN commissions :
        /\ commissions[i].transaction_id # NoId
        /\ i \in DOMAIN transfers
        /\ commissions[i].transaction_id = transfers[i].id

\* C7 as stated: a purchase of a watch that is not for_sale is answered with
\* a conflict error (409) whatever the caller's role, and changes nothing
C7_NotForSaleIsConflict ==
    [][\A c \in Users, w \in 1..MaxWatches :
         (/\ PurchaseRequestStep(c, w)
          /\ w \in DOMAIN watches /\ watches[w].status # "for_sale")
         => /\ RejectedUnchanged
            /\ resp'.code = 409]_vars

\* C7 as amended: a purchase of a watch that is not for_sale always fails and
\* changes nothing; the error is forbidden (403) when the caller's role is
\* not "user" and not-found (404) when it is
C7_NotForSaleIsRejected ==
    [][\A c \in Users, w \in 1..MaxWatches :
         (/\ PurchaseRequestStep(c, w)
          /\ w \in DOMAIN watches /\ watches[w].status # "for_sale")
         => /\ RejectedUnchanged
            /\ resp'.code = IF UserRole[c] = "user" THEN 404 ELSE 403]_vars

C7_Witness ==
    /\ resp.op = "purchase_watch" /\ resp.code = 404
    /\ resp.wid \in DOMAIN watches
    /\ watches[resp.wid].status = "sold"

\* C8: a purchase whose caller is the current owner of the watch is answered
\* with an error and changes nothing, and no sale transfer has the same user
\* as its from-owner and its to-owner
C8_SelfPurchaseRejected ==
    [][/\ \A c \in Users, w \in 1..MaxWatches :
            (/\ PurchaseRequestStep(c, w)
             /\ w \in DOMAIN watches /\ watches[w].current_owner_user_id = c)
            => RejectedUnchanged
       /\ \A i \in DOMAIN transfers' :
            transfers'[i].type = "sale"
                => transfers'[i].from_user_id # transfers'[i].to_user_id]_vars

C8_Witness ==
    /\ resp.op = "purchase_watch" /\ resp.code >= 400
    /\ resp.wid \in DOMAIN watches
    /\ watches[resp.wid].status = "for_sale"
    /\ watches[resp.wid].current_owner_user_id = resp.caller

\* C9: a purchase of a watch whose owner is not a credentialed seller (role
\* other than "store", or a Store with credentialed = false) is answered with
\* an error and changes nothing
C9_OwnerMustBeCredentialed ==
    [][\A c \in Users, w \in 1..MaxWatches :
         (/\ PurchaseRequestStep(c, w)
          /\ w \in DOMAIN watches
          /\ ~CredentialedSeller(watches[w].current_owner_user_id))
         => RejectedUnchanged]_vars

\* C10: a purchase with incomplete payment details is answered with a client
\* error (4xx, never the 5xx of an adapter or internal error), before the
\* Payment Adapter is called, and changes nothing
C10_IncompleteDetailsInvalidRequest ==
    [][\A c \in Users, w \in 1..MaxWatches :
         PurchaseRequestStep(c, w) =>
           \A t \in Reqs, p \in Payloads, a \in AdapterCalls :
             (IncompleteDetails(p) /\ PurchaseBegin(t, c, w, p, a[1], a[2]))
               => /\ RejectedUnchanged
                  /\ resp'.code \in 400..499
                  /\ a[1] = "none"]_vars

\* C11: once the Payment Adapter reported success, a transfer_nft call that
\* raises or returns a non-success status does not stop the sale: the
\* purchase goes on to its commit with a transaction reference in hand
C11_TransferFailureNeverPreventsSale ==
    [][\A c \in Users, w \in 1..MaxWatches :
         PurchaseRequestStep(c, w) =>
           \A t \in Reqs, p \in Payloads, a \in AdapterCalls :
             (/\ a[1] = "success" /\ a[2] \in {"failure", "exception"}
              /\ PurchaseBegin(t, c, w, p, a[1], a[2]))
               => /\ req'[t].pc = "commit"
                  /\ req'[t].caller = c /\ req'[t].wid = w
                  /\ req'[t].tx # "none"]_vars

\* this step is the commit of request t for watch w, made after its payment
\* call answered success and its transfer call answered or raised
PurchaseResolved(t, w) ==
    /\ req[t].pc = "commit" /\ req'[t].pc = "notify"
    /\ req[t].wid = w
    /\ req[t].pay = "success"
    /\ req[t].xfer \in {"success", "exception"}
    /\ req[t].tx \in {"tx_hash", "simulated_transfer"}

\* C12: every step that marks a watch sold, or records its sale, is the
\* commit of a purchase of that watch whose payment call has answered success
\* and whose transfer call has answered or raised before this step
C12_SoldOnlyAfterBothCalls ==
    [][/\ \A w \in DOMAIN watches :
            (watches[w].status # "sold" /\ watches'[w].status = "sold")
                => \E t \in Reqs : PurchaseResolved(t, w)
       /\ Len(transfers') > Len(transfers)
            => \E t \in Reqs : PurchaseResolved(t, transfers'[Len(transfers')].watch_id)]_vars

C12_Witness ==
    \E i \in DOMAIN transfers :
        /\ transfers[i].stellar_tx_hash = "simulated_transfer"
        /\ watches[transfers[i].watch_id].status = "sold"

SaleTitles == {"Relogio Vendido", "Compra Realizada"}

\* this step is the notification step that ends the purchase of request t
NotifyStep(t) == req[t].pc = "notify" /\ req'[t].pc = "idle"

\* C13: the notifications of a sale are emitted only after its commit; when
\* both are emitted they are exactly one row for the seller and one for the
\* buyer; a failure of either emission leaves the committed transfer, owner,
\* status and commission as they are; a purchase that fails before its commit
\* emits none, and no other step emits a sale notification
C13_TwoNotificationsAfterCommit ==
    [][/\ \A t \in Reqs :
            NotifyStep(t) =>
              /\ \E i \in DOMAIN transfers :
                     /\ transfers[i].watch_id = req[t].wid
                     /\ transfers[i].to_user_id = req[t].caller
              /\ transfers' = transfers /\ commissions' = commissions /\ watches' = watches
              /\ resp'.code = 200 =>
                     notifications' = notifications
                         (+) SetToBag({[user_id |-> req[t].owner, title |-> "Relogio Vendido"]})
                         (+) SetToBag({[user_id |-> req[t].caller, title |-> "Compra Realizada"]})
              /\ resp'.code # 200 =>
                     /\ resp'.code = 500
                     /\ BagCardinality(notifications') - BagCardinality(notifications) \in {0, 1}
       /\ (\A t \in Reqs : ~NotifyStep(t)) =>
              \A u \in Users, title \in SaleTitles :
                  CopiesIn([user_id |-> u, title |-> title], notifications')
                      = CopiesIn([user_id |-> u, title |-> title], notifications)
       /\ (resp = NoResp /\ resp'.op = "purchase_watch" /\ req' = req) =>
              notifications' = notifications]_vars

C13_Witness ==
    /\ resp.op = "purchase_watch" /\ resp.code = 200
    /\ watches[resp.wid].status = "sold"
    /\ watches[resp.wid].current_owner_user_id = resp.caller
    /\ CopiesIn([user_id |-> 2, title |-> "Relogio Vendido"], notifications) = 1
    /\ CopiesIn([user_id |-> resp.caller, title |-> "Compra Realizada"], notifications) = 1

\* C14: every step that changes the owner of a watch from A to B adds, in the
\* same commit, one OwnershipTransfer for that watch with from-owner A and
\* to-owner B
C14_OwnerChangesOnlyByTransfer ==
    [][\A w \in DOMAIN watches :
         watches'[w].current_owner_user_id # watches[w].current_owner_user_id
           => /\ Len(transfers') = Len(transfers) + 1
              /\ transfers'[Len(transfers')].watch_id = w
              /\ transfers'[Len(transfers')].from_user_id = watches[w].current_owner_user_id
              /\ transfers'[Len(transfers')].to_user_id = watches'[w].current_owner_user_id]_vars

\* position of a status on the path registered, evaluated, tokenized,
\* for_sale, sold; the two failure statuses lie off the path, after tokenized
StatusRank(status) ==
    CASE status = "registered" -> 1
      [] status = "evaluated" -> 2
      [] status = "tokenized" -> 3
      [] status = "for_sale" -> 4
      [] status = "sold" -> 5
      [] OTHER -> 6

\* C15: no step moves a watch to an earlier status; in particular a sold
\* watch never returns to for_sale
C15_StatusMonotonic ==
    [][\A w \in DOMAIN watches :
         StatusRank(watches'[w].status) >= StatusRank(watches[w].status)]_vars

\* C16: tokenize called by an evaluator that has an Evaluator record, on a
\* watch in status registered or evaluated, succeeds unless the Blockchain
\* Adapter fails: the watch gets its token and status tokenized
C16_TokenizeSucceeds ==
    [][\A c \in Users, w \in 1..MaxWatches, n \in {"none", "success"} :
         (/\ resp = NoResp /\ resp'.op = "tokenize_watch"
          /\ UserRole[c] = "evaluator" /\ \E e \in Evaluators : e.user_id = c
          /\ w \in DOMAIN watches /\ watches[w].status \in {"registered", "evaluated"}
          /\ TokenizeWatch(c, w, n))
         => /\ resp'.code = 200
            /\ watches'[w].status = "tokenized"
            /\ watches'[w].nft]_vars

C18_TokenizeWrongStatusRejected ==
    [][\A c \in Users, w \in 1..MaxWatches, n \in {"none"} \cup AdapterResults :
         (/\ resp = NoResp /\ resp'.op = "tokenize_watch"
          /\ w \in DOMAIN watches
          /\ watches[w].status \notin {"registered", "evaluated"}
          /\ TokenizeWatch(c, w, n))
         => /\ n = "none"
            /\ resp'.code >= 400
            /\ watches'[w].status = watches[w].status
            /\ watches'[w].nft = watches[w].nft]_vars

C18_Witness ==
    /\ resp.op = "tokenize_watch" /\ resp.code = 500
    /\ watches # <<>>
    /\ \A w \in DOMAIN watches : watches[w].status \in {"for_sale", "sold"}

\* C20: OwnershipTransfer rows are append-only: every step keeps each row
\* already committed, in its place and with every field as it was
C20_TransfersAppendOnly ==
    [][/\ Len(transfers') >= Len(transfers)
       /\ \A i \in DOMAIN transfers : transfers'[i] = transfers[i]]_vars

C20_Witness ==
    /\ Len(transfers) >= 2
    /\ transfers[1].id = 1 /\ transfers[2].id = 2
    /\ \E w \in DOMAIN watches : watches[w].status = "sold"

\* C21: an escrow is released only with both the seller's and the
\* evaluator's confirmation on it, and one confirmation on a pending escrow
\* that carries none does not release it.
C21_ReleaseNeedsBothConfirmations ==
    /\ [](\A i \in DOMAIN escrows :
            escrows[i].status = "released" =>
                escrows[i].seller_confirmed /\ escrows[i].evaluator_confirmed)
    /\ [][\A i \in DOMAIN escrows :
            (/\ escrows[i].status = "pending"
             /\ ~escrows[i].seller_confirmed
             /\ ~escrows[i].evaluator_confirmed) => escrows'[i].status = "pending"]_vars

C21_Witness ==
    /\ resp.op = "confirm_delivery" /\ resp.code = 200
    /\ resp.wid \in DOMAIN escrows
    /\ escrows[resp.wid].status = "pending"
    /\ escrows[resp.wid].seller_confirmed # escrows[resp.wid].evaluator_confirmed

\* C22: no two watch rows share a serial number, and a create_watch or
\* create_watch_with_image request whose serial number is already
\* registered when it checks or inserts is refused and adds no row.
C22_SerialNumbersUnique ==
    /\ [](\A i, j \in DOMAIN watches :
            watches[i].serial_number = watches[j].serial_number => i = j)
    /\ [][\A s \in Serials : SerialExists(s) =>
            /\ (\/ \E c \in Accounts, v \in Values : CreateWatch(c, s, v)
                \/ \E u \in Reqs, c \in Accounts, o \in UploadOwners : UploadBegin(u, c, s, o))
                    => (watches' = watches /\ resp'.code >= 400)
            /\ \A u \in Reqs :
                    (/\ uploads[u].pc = "read"
                     /\ uploads[u].serial = s
                     /\ \E n \in AdapterResults : UploadCommit(u, n))
                    => (watches' = watches /\ resp'.code >= 400)]_vars

C22_Witness ==
    /\ resp.op = "create_watch_with_image" /\ resp.code = 500 /\ resp.cause = "integrity"
    /\ Len(watches) = 1

\* the request was answered with the permission error and wrote nothing
PermissionDenied(op) ==
    /\ resp'.op = op /\ resp'.code = 403
    /\ ledger' = ledger /\ req' = req /\ uploads' = uploads

ValueOrDefault(w) ==
    IF watches[w].current_value_brl = NoValue THEN DefaultPrice
    ELSE watches[w].current_value_brl

\* C24: the price a purchase charges (the amount its request hands to the
\* Payment Adapter and carries to its commit) and the price on its transfer
\* row are the watch's current value, 50000.00 when the watch has none,
\* whatever price the watch was listed with.
C24_PriceIsCurrentValue ==
    /\ \A t \in Reqs : req[t].pc # "idle" => req[t].price = ValueOrDefault(req[t].wid)
    /\ \A i \in DOMAIN transfers :
            transfers[i].type = "sale" =>
                transfers[i].price_brl = ValueOrDefault(transfers[i].watch_id)

C24_Witness ==
    \E i \in DOMAIN transfers :
        /\ watches[transfers[i].watch_id].current_value_brl = NoValue
        /\ watches[transfers[i].watch_id].price_brl = 7000000
        /\ transfers[i].price_brl = DefaultPrice

\* C27: list-for-sale and sell called by a store for a watch whose current
\* owner is not the store's user, a watch that store has sold included, fail
\* with not-found and leave the watch as it is.
C27_StoreListsOnlyItsOwnWatches ==
    [][\A c \in Users, w \in DOMAIN watches :
        (/\ resp = NoResp
         /\ resp'.op \in {"list_for_sale", "put_watch_for_sale"}
         /\ UserRole[c] = "store"
         /\ watches[w].current_owner_user_id # c
         /\ \/ ListForSale(c, w)
            \/ \E p \in ListPrices : PutWatchForSale(c, w, p))
        => (resp'.code = 404 /\ watches' = watches)]_vars

\* C28: every watch with status for_sale is owned by a user whose role is
\* store.
C28_ForSaleOwnedByStore ==
    \A w \in DOMAIN watches :
        watches[w].status = "for_sale" => UserRole[watches[w].current_owner_user_id] = "store"

\* C29: a watch created by create_watch starts registered and owned by the
\* caller when the caller is an admin; when the caller is an evaluator it
\* starts for_sale, owned by the user of the store the evaluator is linked to
\* and attached to that store, or owned by the evaluator and attached to no
\* store when there is no such store.
C29_InitialStateFollowsRole ==
    [][\A c \in Accounts :
        (/\ resp'.op = "create_watch" /\ resp'.code = 200
         /\ \E s \in SerialInputs, v \in Values : CreateWatch(c, s, v))
        => LET new == watches'[Len(watches')]
               linked == {e \in Evaluators : e.user_id = c /\ e.store_id \in DOMAIN stores}
           IN  /\ Len(watches') = Len(watches) + 1
               /\ UserRole[c] = "admin" =>
                      new.status = "registered" /\ new.current_owner_user_id = c
               /\ UserRole[c] = "evaluator" =>
                      /\ new.status = "for_sale"
                      /\ \A e \in linked :
                            /\ new.current_owner_user_id = stores[e.store_id].user_id
                            /\ new.store_id = e.store_id
                      /\ linked = {} =>
                            new.current_owner_user_id = c /\ new.store_id = NoId]_vars

C29_Witness ==
    /\ resp.op = "create_watch" /\ resp.code = 200
    /\ \E w1, w2 \in DOMAIN watches :
        /\ watches[w1].status = "for_sale"
        /\ watches[w1].current_owner_user_id = 2 /\ watches[w1].store_id = 1
        /\ watches[w2].status = "for_sale"
        /\ watches[w2].current_owner_user_id = 6 /\ watches[w2].store_id = NoId

\* C30: confirm_delivery sets the seller's confirmation only for a caller
\* who is the seller of the escrow and the evaluator's confirmation only for
\* a caller with role evaluator; a caller with role admin or store is
\* answered with the forbidden error and no confirmation changes.
C30_ConfirmationByTheRightParty ==
    [][\A c \in Users, e \in DOMAIN escrows :
        (/\ resp = NoResp
         /\ resp'.op = "confirm_delivery" /\ resp'.caller = c /\ resp'.wid = e)
        => /\ (escrows'[e].seller_confirmed /\ ~escrows[e].seller_confirmed)
                => c = escrows[e].seller_id
           /\ (escrows'[e].evaluator_confirmed /\ ~escrows[e].evaluator_confirmed)
                => UserRole[c] = "evaluator"
           /\ UserRole[c] \in {"admin", "store"}
                => (resp'.code = 403 /\ escrows' = escrows)]_vars
====
